---- MODULE Spec2Model ----
(***************************************************************************)
(* Model of arset_suhi_for_mrcog_st_v01_20221006.js: a linear Earth Engine *)
(* script that filters the Landsat 8 collection, masks clouds, converts    *)
(* the thermal band to Fahrenheit, averages per pixel, clips to the study  *)
(* area, and prints / displays / exports the result.                       *)
(*                                                                         *)
(* Each statement of the script is one action; pc is the next statement.   *)
(* Script variables hold the value denoted by the server-side computation  *)
(* graph they reference; the variable evals records every statement that   *)
(* asks the server to evaluate a graph.                                    *)
(*                                                                         *)
(* Numbers.  A band value is an exact decimal [i, f] = i + f / 10^9 with   *)
(* 0 <= f < 10^9 (floor representation, so -55.7896 is [-56, 210400000]).  *)
(* Coordinates are integer micro-degrees.                                  *)
(***************************************************************************)
EXTENDS Integers, Sequences, FiniteSets, TLC

\* ------------------------------------------------------------------------
\* Bounds of the model
\* ------------------------------------------------------------------------
MaxImages == 2

\* ------------------------------------------------------------------------
\* User inputs of the script
\* ------------------------------------------------------------------------
start_day == 182
end_day == 243
start_year == 2013
end_year == 2022

\* ee.Geometry.Polygon ring, [lon, lat] in micro-degrees
aoi ==
  << [lon |-> -107655533, lat |-> 36242138],
     [lon |-> -105265001, lat |-> 36242138],
     [lon |-> -105265001, lat |-> 34233749],
     [lon |-> -107655533, lat |-> 34233749] >>

STUDYBOUNDS == aoi

DISPLAY == TRUE

LC08_bands == << "ST_B10", "QA_PIXEL" >>

\* ------------------------------------------------------------------------
\* Exact decimal arithmetic
\* ------------------------------------------------------------------------
ONE == 10^9

Dec(i, f) == [i |-> i, f |-> f]

Norm(i, f) == [i |-> i + (f \div ONE), f |-> f % ONE]

DecAdd(a, b) == Norm(a.i + b.i, a.f + b.f)

DecSub(a, b) == Norm(a.i - b.i, a.f - b.f)

\* a * k for an integer 0 <= k < 10^4, fraction multiplied limb by limb
MulSmall(a, k) ==
  LET fh == a.f \div 10^5
      fl == a.f % 10^5
      t  == fl * k
      u  == fh * k + (t \div 10^5)
  IN  [i |-> a.i * k + (u \div 10^4),
       f |-> (u % 10^4) * 10^5 + (t % 10^5)]

\* a / 10^n for 0 <= n <= 8 (digits below 10^-9 are dropped)
ShiftRight(a, n) ==
  [i |-> a.i \div 10^n,
   f |-> (a.i % 10^n) * 10^(9 - n) + (a.f \div 10^n)]

\* a * (m * 10^-e) for a decimal literal with mantissa m >= 0
RECURSIVE DecMul(_, _, _)
DecMul(a, m, e) ==
  IF m < 10^4
    THEN ShiftRight(MulSmall(a, m), e)
    ELSE DecAdd(DecMul(a, m \div 10^4, e - 4),
                ShiftRight(MulSmall(a, m % 10^4), e))

DecLeq(a, b) == a.i < b.i \/ (a.i = b.i /\ a.f <= b.f)

\* |a - b| <= tol
Approx(a, b, tol) == DecLeq(DecSub(a, b), tol) /\ DecLeq(DecSub(b, a), tol)

RECURSIVE BitAnd(_, _)
BitAnd(x, y) ==
  IF x = 0 \/ y = 0 THEN 0
  ELSE (x % 2) * (y % 2) + 2 * BitAnd(x \div 2, y \div 2)

\* 1 << n
Shl1(n) == 2^n

\* ------------------------------------------------------------------------
\* Geometry
\* ------------------------------------------------------------------------
SeqMin(s, F(_)) == CHOOSE v \in {F(s[k]) : k \in DOMAIN s} :
                     \A k \in DOMAIN s : v <= F(s[k])
SeqMax(s, F(_)) == CHOOSE v \in {F(s[k]) : k \in DOMAIN s} :
                     \A k \in DOMAIN s : v >= F(s[k])
LonOf(c) == c.lon
LatOf(c) == c.lat

\* Extent of a ring; the ring of the script is an axis-aligned planar
\* rectangle (geodesic = false), so the extent is the polygon itself.
Extent(ring) ==
  [w |-> SeqMin(ring, LonOf), e |-> SeqMax(ring, LonOf),
   s |-> SeqMin(ring, LatOf), n |-> SeqMax(ring, LatOf)]

Contains(ring, p) ==
  LET x == Extent(ring)
  IN  x.w <= p.lon /\ p.lon <= x.e /\ x.s <= p.lat /\ p.lat <= x.n

Intersects(fp, ring) ==
  LET x == Extent(ring)
  IN  fp.w <= x.e /\ x.w <= fp.e /\ fp.s <= x.n /\ x.s <= fp.n

\* STUDYBOUNDS.centroid(0.001): centre of the planar rectangle
Centroid(ring) ==
  LET x == Extent(ring)
  IN  << (x.w + x.e) \div 2, (x.s + x.n) \div 2 >>

\* list.get(k), negative k counts from the end
ListGet(list, k) == IF k >= 0 THEN list[k + 1] ELSE list[Len(list) + 1 + k]

\* ------------------------------------------------------------------------
\* Pixel grid of the model: one position inside the study area, one outside
\* ------------------------------------------------------------------------
PIn == [lon |-> -106500000, lat |-> 35000000]
POut == [lon |-> -105000000, lat |-> 35000000]
Pixels == {PIn, POut}

World == [w |-> -180000000, e |-> 180000000, s |-> -90000000, n |-> 90000000]

\* ------------------------------------------------------------------------
\* ee.Image: id, footprint, acquisition time, properties, ordered band
\* names, and per band and pixel a value v with a validity flag m.
\* error # "" is a graph whose evaluation fails with that message.
\* ------------------------------------------------------------------------
BandSet(image) == {image.bands[k] : k \in DOMAIN image.bands}

NoBands == [b \in {} |-> [p \in Pixels |-> [v |-> Dec(0, 0), m |-> FALSE]]]

ErrorImage(msg) ==
  [id |-> 0, footprint |-> World, time |-> [year |-> 0, doy |-> 0],
   props |-> [k \in {} |-> 0], bands |-> << >>, data |-> NoBands,
   error |-> msg]

Unset == ErrorImage("unset")

SelectError == "Image.select: Pattern did not match any bands"

\* image.select(names)
Select(image, names) ==
  IF image.error # "" THEN image
  ELSE IF \E k \in DOMAIN names : names[k] \notin BandSet(image)
    THEN ErrorImage(SelectError)
    ELSE [image EXCEPT !.bands = names,
                       !.data = [b \in {names[k] : k \in DOMAIN names} |->
                                   image.data[b]]]

\* Per-pixel unary operation on every band; masks are kept
MapValues(image, F(_)) ==
  IF image.error # "" THEN image
  ELSE [image EXCEPT !.data =
          [b \in BandSet(image) |->
             [p \in Pixels |-> [v |-> F(image.data[b][p].v),
                                m |-> image.data[b][p].m]]]]

\* image.bitwiseAnd(n)
BitwiseAnd(image, n) ==
  LET F(v) == Dec(BitAnd(v.i, n), 0) IN MapValues(image, F)

\* image.not(): 1 where the value is zero, 0 elsewhere
Not(image) ==
  LET F(v) == IF v = Dec(0, 0) THEN Dec(1, 0) ELSE Dec(0, 0)
  IN  MapValues(image, F)

\* a.or(b) on single-band images: 1 where either value is non-zero; the
\* result is valid where both inputs are valid and is named after a's band
Or(a, b) ==
  IF a.error # "" THEN a
  ELSE IF b.error # "" THEN b
  ELSE [a EXCEPT !.data =
          [n \in BandSet(a) |->
             [p \in Pixels |->
                [v |-> IF a.data[a.bands[1]][p].v # Dec(0, 0)
                          \/ b.data[b.bands[1]][p].v # Dec(0, 0)
                       THEN Dec(1, 0) ELSE Dec(0, 0),
                 m |-> a.data[a.bands[1]][p].m
                       /\ b.data[b.bands[1]][p].m]]]]

\* updateMask that loses the properties of the image
UpdateMask_DropsProps(image, mask) ==
  IF image.error # "" THEN image
  ELSE IF mask.error # "" THEN mask
  ELSE [image EXCEPT !.props = [k \in {} |-> 0],
                     !.data =
          [b \in BandSet(image) |->
             [p \in Pixels |->
                [v |-> image.data[b][p].v,
                 m |-> image.data[b][p].m
                       /\ mask.data[mask.bands[1]][p].m
                       /\ mask.data[mask.bands[1]][p].v # Dec(0, 0)]]]]

\* image.updateMask(mask): every band stays valid only where it was valid
\* and the single-band mask is valid and non-zero; values are kept
UpdateMask(image, mask) ==
  IF image.error # "" THEN image
  ELSE IF mask.error # "" THEN mask
  ELSE [image EXCEPT !.data =
          [b \in BandSet(image) |->
             [p \in Pixels |->
                [v |-> image.data[b][p].v,
                 m |-> image.data[b][p].m
                       /\ mask.data[mask.bands[1]][p].m
                       /\ mask.data[mask.bands[1]][p].v # Dec(0, 0)]]]]

\* image.multiply(m * 10^-e), image.add(c), image.subtract(c)
Multiply(image, m, e) == LET F(v) == DecMul(v, m, e) IN MapValues(image, F)
Add(image, c) == LET F(v) == DecAdd(v, c) IN MapValues(image, F)
Subtract(image, c) == LET F(v) == DecSub(v, c) IN MapValues(image, F)

RECURSIVE FreshName(_, _, _)
FreshName(taken, name, k) ==
  LET suffix == CASE k = 1 -> "_1" [] k = 2 -> "_2" [] OTHER -> "_3"
  IN  IF name \o suffix \in taken /\ k < 3
        THEN FreshName(taken, name, k + 1) ELSE name \o suffix

\* addBands that never overwrites: the band is appended under a fresh name
AddBands_Append(image, src, overwrite) ==
  IF image.error # "" THEN image
  ELSE IF src.error # "" THEN src
  ELSE LET name == src.bands[1]
           fresh == IF name \in BandSet(image)
                      THEN FreshName(BandSet(image), name, 1) ELSE name
       IN  [image EXCEPT !.bands = Append(image.bands, fresh),
                         !.data = [b \in BandSet(image) \cup {fresh} |->
                                     IF b = fresh THEN src.data[name]
                                     ELSE image.data[b]]]

\* image.addBands(src, null, overwrite) for a single-band src: with
\* overwrite a band of the same name is replaced in place, otherwise the
\* new band is appended under a fresh name
AddBands(image, src, overwrite) ==
  IF image.error # "" THEN image
  ELSE IF src.error # "" THEN src
  ELSE LET name == src.bands[1] IN
    IF name \in BandSet(image)
      THEN IF overwrite
        THEN [image EXCEPT !.data = [image.data EXCEPT ![name] = src.data[name]]]
        ELSE LET fresh == FreshName(BandSet(image), name, 1) IN
             [image EXCEPT !.bands = Append(image.bands, fresh),
                           !.data = [b \in BandSet(image) \cup {fresh} |->
                                       IF b = fresh THEN src.data[name]
                                       ELSE image.data[b]]]
      ELSE [image EXCEPT !.bands = Append(image.bands, name),
                         !.data = [b \in BandSet(image) \cup {name} |->
                                     IF b = name THEN src.data[name]
                                     ELSE image.data[b]]]

\* Clip that narrows the footprint and leaves the pixels alone
Clip_FootprintOnly(image, ring) ==
  IF image.error # "" THEN image
  ELSE [image EXCEPT !.footprint = Extent(ring)]

\* image.clip(geometry): pixels outside the geometry become invalid
Clip(image, ring) ==
  IF image.error # "" THEN image
  ELSE [image EXCEPT !.footprint = Extent(ring),
                     !.data =
          [b \in BandSet(image) |->
             [p \in Pixels |->
                [v |-> image.data[b][p].v,
                 m |-> image.data[b][p].m /\ Contains(ring, p)]]]]

\* ------------------------------------------------------------------------
\* The two functions of the script
\* ------------------------------------------------------------------------
\* cloudMask testing bit 5 (snow) in place of bit 4 (cloud shadow)
cloudMask_Bit5(image) ==
  LET qa   == Select(image, << "QA_PIXEL" >>)
      mask == Or(BitwiseAnd(qa, Shl1(3)), BitwiseAnd(qa, Shl1(5)))
  IN  UpdateMask(image, Not(mask))

cloudMask(image) ==
  LET qa   == Select(image, << "QA_PIXEL" >>)
      mask == Or(BitwiseAnd(qa, Shl1(3)), BitwiseAnd(qa, Shl1(4)))
  IN  UpdateMask(image, Not(mask))

\* Kelvin without the additive offset
Kelvin_NoOffset(image) == Multiply(Select(image, << "ST_B10" >>), 341802, 8)

\* intermediate values of the conversion chain
Kelvin(image) == Add(Multiply(Select(image, << "ST_B10" >>), 341802, 8), Dec(149, 0))
Celsius(image) == Subtract(Kelvin(image), Dec(273, 150000000))

\* applyScaleFactors adding 32 before multiplying by 1.8
applyScaleFactors_Reordered(image) ==
  LET thermalBands == Multiply(Add(Celsius(image), Dec(32, 0)), 18, 1)
  IN  AddBands(image, thermalBands, TRUE)

applyScaleFactors(image) ==
  LET thermalBands == Add(Multiply(Celsius(image), 18, 1), Dec(32, 0))
  IN  AddBands(image, thermalBands, TRUE)

\* ------------------------------------------------------------------------
\* ee.Filter and ee.ImageCollection (an ordered sequence of images)
\* ------------------------------------------------------------------------
FilterBoundsOf(ring) == [type |-> "bounds", geometry |-> ring]
FilterDayOfYear(start, end) == [type |-> "dayOfYear", start |-> start, end |-> end]
FilterCalendarRange(start, end, field) ==
  [type |-> "calendarRange", start |-> start, end |-> end, field |-> field]
FilterLt(name, value) == [type |-> "lt", name |-> name, value |-> value]

InRange(x, start, end) ==
  IF start <= end THEN start <= x /\ x <= end ELSE x >= start \/ x <= end

\* Matches with 'lt' read as 'not greater than'
Matches_LteCloud(filter, image) ==
  CASE filter.type = "bounds" -> Intersects(image.footprint, filter.geometry)
    [] filter.type = "dayOfYear" ->
         InRange(image.time.doy, filter.start, filter.end)
    [] filter.type = "calendarRange" ->
         InRange(image.time[filter.field], filter.start, filter.end)
    [] filter.type = "lt" ->
         filter.name \in DOMAIN image.props
         /\ image.props[filter.name] <= filter.value

Matches(filter, image) ==
  CASE filter.type = "bounds" -> Intersects(image.footprint, filter.geometry)
    [] filter.type = "dayOfYear" ->
         InRange(image.time.doy, filter.start, filter.end)
    [] filter.type = "calendarRange" ->
         InRange(image.time[filter.field], filter.start, filter.end)
    [] filter.type = "lt" ->
         filter.name \in DOMAIN image.props
         /\ image.props[filter.name] < filter.value

\* collection.filter(f)
Filter(coll, f) == LET Test(image) == Matches(f, image) IN SelectSeq(coll, Test)

\* collection.filterBounds(geometry)
FilterBounds(coll, ring) == Filter(coll, FilterBoundsOf(ring))

\* collection.map(F)
Map(coll, F(_)) == [k \in DOMAIN coll |-> F(coll[k])]

\* collection.select(names)
CollSelect(coll, names) == LET F(image) == Select(image, names) IN Map(coll, F)

\* Sum and count of the valid values of band b at pixel p over coll[1..n]
RECURSIVE SumValid(_, _, _, _)
SumValid(coll, b, p, n) ==
  IF n = 0 THEN Dec(0, 0)
  ELSE IF coll[n].data[b][p].m
    THEN DecAdd(SumValid(coll, b, p, n - 1), coll[n].data[b][p].v)
    ELSE SumValid(coll, b, p, n - 1)

RECURSIVE CountValid(_, _, _, _)
CountValid(coll, b, p, n) ==
  IF n = 0 THEN 0
  ELSE CountValid(coll, b, p, n - 1) + (IF coll[n].data[b][p].m THEN 1 ELSE 0)

\* Mean dividing by the number of images, masked ones included
Mean_CountsAll(coll) ==
  IF Len(coll) = 0
    THEN [ErrorImage("") EXCEPT !.bands = << >>]
    ELSE [ErrorImage("") EXCEPT
            !.bands = coll[1].bands,
            !.data = [b \in BandSet(coll[1]) |->
                        [p \in Pixels |->
                           [v |-> [num |-> SumValid(coll, b, p, Len(coll)),
                                   den |-> Len(coll)],
                            m |-> TRUE]]]]

\* collection.mean(): per band and pixel the mean of the valid values, kept
\* as the exact quotient num / den; a pixel with no valid value is invalid.
\* The mean of an empty collection is an image without bands.
Mean(coll) ==
  IF Len(coll) = 0
    THEN [ErrorImage("") EXCEPT !.bands = << >>]
    ELSE [ErrorImage("") EXCEPT
            !.bands = coll[1].bands,
            !.data = [b \in BandSet(coll[1]) |->
                        [p \in Pixels |->
                           [v |-> [num |-> SumValid(coll, b, p, Len(coll)),
                                   den |-> CountValid(coll, b, p, Len(coll))],
                            m |-> CountValid(coll, b, p, Len(coll)) > 0]]]]

\* ui.Chart.image.histogram: the valid values of the image over the region
Histogram(image, ring) ==
  [error |-> image.error,
   values |-> IF image.error # "" THEN {}
              ELSE {[p |-> p, v |-> image.data[image.bands[1]][p].v] :
                      p \in {q \in Pixels : Contains(ring, q)
                                            /\ image.data[image.bands[1]][q].m}}]

DATE_RANGE == FilterDayOfYear(start_day, end_day)
YEAR_RANGE == FilterCalendarRange(start_year, end_year, "year")

\* ------------------------------------------------------------------------
\* Source collection LANDSAT/LC08/C02/T1_L2 as found on the server
\* ------------------------------------------------------------------------
\* A pixel of a source image: raw thermal count, QA_PIXEL value and the
\* validity of each of the two bands
Px(st, qa, ms, mq) == [st |-> st, qa |-> qa, ms |-> ms, mq |-> mq]

FpOverlap == [w |-> -107000000, e |-> -104800000, s |-> 34000000, n |-> 36000000]
FpDisjoint == [w |-> -104900000, e |-> -103000000, s |-> 34000000, n |-> 36000000]

InFootprint(fp, p) ==
  fp.w <= p.lon /\ p.lon <= fp.e /\ fp.s <= p.lat /\ p.lat <= fp.n

\* Pixels outside the footprint of a scene carry no data
MkImage(fp, year, doy, cloud, pin, pout) ==
  LET px(p) == IF p = PIn THEN pin ELSE pout IN
  [id |-> 0, footprint |-> fp, time |-> [year |-> year, doy |-> doy],
   props |-> [CLOUD_COVER |-> cloud],
   bands |-> << "ST_B10", "QA_PIXEL" >>,
   data |-> [b \in {"ST_B10", "QA_PIXEL"} |->
               [p \in Pixels |->
                  IF b = "ST_B10"
                    THEN [v |-> Dec(px(p).st, 0),
                          m |-> px(p).ms /\ InFootprint(fp, p)]
                    ELSE [v |-> Dec(px(p).qa, 0),
                          m |-> px(p).mq /\ InFootprint(fp, p)]]],
   error |-> ""]

\* system:index of the images of a collection
WithIds(coll) == [k \in DOMAIN coll |-> [coll[k] EXCEPT !.id = k]]

SeqsUpTo(S, n) == UNION {[1..k -> S] : k \in 0..n}

\* QA_PIXEL words: clear (bits 6, 8, 10, 12, 14), cloud (bit 3 and
\* confidences), cloud shadow (bit 4 and confidences)
QaClear == 2^14 + 2^12 + 2^10 + 2^8 + 2^6
QaCloud == 2^14 + 2^12 + 2^10 + 2^9 + 2^8 + 2^3
QaShadow == 2^14 + 2^12 + 2^11 + 2^10 + 2^8 + 2^6 + 2^4

\* Scenes that differ in their pixels: clear, cloudy, shadowed and
\* already-invalid pixels; one more scene has a cloud cover at the limit
PixelScenes ==
  {MkImage(FpOverlap, 2015, 200, 5, pin, pout) :
     pin \in {Px(20000, QaClear, TRUE, TRUE), Px(44000, QaClear, TRUE, TRUE),
              Px(30000, QaCloud, TRUE, TRUE), Px(0, QaClear, FALSE, TRUE)},
     pout \in {Px(41000, QaClear, TRUE, TRUE), Px(30000, QaShadow, TRUE, TRUE)}}
  \cup {MkImage(FpOverlap, 2015, 200, 20, Px(52000, QaClear, TRUE, TRUE),
                Px(41000, QaClear, TRUE, TRUE))}

\* Scenes that differ in footprint, acquisition date and cloud cover
MetaScenes ==
  {MkImage(fp, 2015, 200, 5, Px(20000, QaClear, TRUE, TRUE),
           Px(41000, QaClear, TRUE, TRUE)) : fp \in {FpOverlap, FpDisjoint}}
  \cup {MkImage(FpOverlap, 2015, doy, 5, Px(20000, QaClear, TRUE, TRUE),
                Px(41000, QaCloud, TRUE, TRUE)) : doy \in {181, 182, 243, 244}}
  \cup {MkImage(FpOverlap, year, 200, 5, Px(20000, QaClear, TRUE, TRUE),
                Px(41000, QaClear, TRUE, TRUE)) :
          year \in {2012, 2013, 2022, 2023}}
  \cup {MkImage(FpOverlap, 2015, 200, cloud, Px(20000, QaCloud, TRUE, TRUE),
                Px(41000, QaClear, TRUE, TRUE)) : cloud \in {19, 20, 21}}
  \cup {MkImage(FpDisjoint, 2012, 181, 20, Px(20000, QaClear, TRUE, TRUE),
                Px(41000, QaClear, TRUE, TRUE))}

\* One scene passing every filter, with every kind of pixel at PIn.  The
\* product carries a QA_PIXEL word wherever it carries a thermal value.
QaValues == {0, 1, 8, 16, 24, QaClear, QaCloud, QaShadow, 2^16 - 1 - 24}
RawValues == {0, 1, 20000, 65535}

SingleScenes ==
  {MkImage(FpOverlap, 2015, 200, 5, Px(st, qa, mk[1], mk[2]), pout) :
     st \in RawValues, qa \in QaValues,
     mk \in {m \in BOOLEAN \X BOOLEAN : m[1] => m[2]},
     pout \in {Px(41000, QaClear, TRUE, TRUE), Px(30000, 24, TRUE, TRUE)}}

SourceCollections ==
  {WithIds(c) : c \in SeqsUpTo(PixelScenes, MaxImages)}
  \cup {WithIds(c) : c \in SeqsUpTo(MetaScenes, MaxImages)}
  \cup {<< [s EXCEPT !.id = 1] >> : s \in SingleScenes}

\* ------------------------------------------------------------------------
\* The script as a state machine
\* ------------------------------------------------------------------------
VARIABLES
  pc,                  \* next statement of the script
  source,              \* images of LANDSAT/LC08/C02/T1_L2 on the server
  mapOptions,          \* basemap of the Map
  mapCenter,           \* << lon, lat, zoom >> of the Map, << >> before it is set
  geom, coords, firstC, lastC, xCoord, yCoord,
  L8, filtered_L8, landsatST, mean_LandsatST, one_band, clip_mean_ST,
  values_ST, histogram_ST_values,
  console,             \* what print has written
  layers,              \* layers of the Map
  tasks,               \* export tasks handed to the task manager
  evals                \* statements that made the server evaluate a graph

vars == << pc, source, mapOptions, mapCenter, geom, coords, firstC, lastC,
           xCoord, yCoord, L8, filtered_L8, landsatST, mean_LandsatST,
           one_band, clip_mean_ST, values_ST, histogram_ST_values,
           console, layers, tasks, evals >>

compute == << L8, filtered_L8, landsatST, mean_LandsatST, one_band,
              clip_mean_ST, values_ST, histogram_ST_values >>
centre == << geom, coords, firstC, lastC, xCoord, yCoord >>
ui == << mapOptions, mapCenter, console, layers, tasks >>

NoHistogram == [error |-> "unset", values |-> {}]

Init ==
  /\ pc = "L67"
  /\ source \in SourceCollections
  /\ mapOptions = "ROADMAP"
  /\ mapCenter = << >>
  /\ geom = << >> /\ coords = << >>
  /\ firstC = 0 /\ lastC = 0 /\ xCoord = 0 /\ yCoord = 0
  /\ L8 = << >> /\ filtered_L8 = << >> /\ landsatST = << >>
  /\ mean_LandsatST = Unset /\ one_band = Unset /\ clip_mean_ST = Unset
  /\ values_ST = Unset
  /\ histogram_ST_values = NoHistogram
  /\ console = << >> /\ layers = << >> /\ tasks = << >>
  /\ evals = << >>

Eval(line, kind) == [line |-> line, kind |-> kind]

\* Error reported when a collection is evaluated: the first failing image
CollError(coll) ==
  IF \E k \in DOMAIN coll : coll[k].error # ""
    THEN coll[CHOOSE k \in DOMAIN coll : coll[k].error # ""].error
    ELSE ""

\* line 67: Map.setOptions('SATELLITE')
MapSetOptions ==
  /\ pc = "L67" /\ pc' = "L83"
  /\ mapOptions' = "SATELLITE"
  /\ UNCHANGED << source, mapCenter, centre, compute, console, layers, tasks, evals >>

\* line 83: var geom = STUDYBOUNDS.centroid(0.001)
GeomCentroid ==
  /\ pc = "L83" /\ pc' = "L84"
  /\ geom' = Centroid(STUDYBOUNDS)
  /\ UNCHANGED << source, ui, coords, firstC, lastC, xCoord, yCoord, compute, evals >>

\* line 84: var coords = geom.coordinates()
GeomCoordinates ==
  /\ pc = "L84" /\ pc' = "L85"
  /\ coords' = geom
  /\ UNCHANGED << source, ui, geom, firstC, lastC, xCoord, yCoord, compute, evals >>

\* line 85: var firstC = coords.get(0)
CoordsGetFirst ==
  /\ pc = "L85" /\ pc' = "L86"
  /\ firstC' = ListGet(coords, 0)
  /\ UNCHANGED << source, ui, geom, coords, lastC, xCoord, yCoord, compute, evals >>

\* line 86: var lastC = coords.get(-1)
CoordsGetLast ==
  /\ pc = "L86" /\ pc' = "L87"
  /\ lastC' = ListGet(coords, -1)
  /\ UNCHANGED << source, ui, geom, coords, firstC, xCoord, yCoord, compute, evals >>

\* line 87: var xCoord = firstC.getInfo(), a synchronous request
GetInfoX ==
  /\ pc = "L87" /\ pc' = "L88"
  /\ xCoord' = firstC
  /\ evals' = Append(evals, Eval("L87", "getInfo"))
  /\ UNCHANGED << source, ui, geom, coords, firstC, lastC, yCoord, compute >>

\* line 88: var yCoord = lastC.getInfo(), a synchronous request
GetInfoY ==
  /\ pc = "L88" /\ pc' = "L89"
  /\ yCoord' = lastC
  /\ evals' = Append(evals, Eval("L88", "getInfo"))
  /\ UNCHANGED << source, ui, geom, coords, firstC, lastC, xCoord, compute >>

\* Map.setCenter that fetches the centre from the server itself
MapSetCenter_Blocking ==
  /\ pc = "L89" /\ pc' = "L123"
  /\ mapCenter' = << xCoord, yCoord, 9 >>
  /\ evals' = Append(evals, Eval("L89", "setCenter"))
  /\ UNCHANGED << source, mapOptions, console, layers, tasks, centre, compute >>

\* line 89: Map.setCenter(xCoord, yCoord, 9)
MapSetCenter ==
  /\ pc = "L89" /\ pc' = "L123"
  /\ mapCenter' = << xCoord, yCoord, 9 >>
  /\ UNCHANGED << source, mapOptions, console, layers, tasks, centre, compute, evals >>

\* lines 123-128: var L8 = ee.ImageCollection(...).select(...)
\*   .filterBounds(STUDYBOUNDS).filter(DATE_RANGE).filter(YEAR_RANGE).map(cloudMask)
BuildL8 ==
  /\ pc = "L123" /\ pc' = "L131"
  /\ L8' = Map(Filter(Filter(FilterBounds(
                 CollSelect(source, << "ST_B10", "QA_PIXEL" >>), STUDYBOUNDS),
               DATE_RANGE), YEAR_RANGE), cloudMask)
  /\ UNCHANGED << source, ui, centre, filtered_L8, landsatST, mean_LandsatST,
                  one_band, clip_mean_ST, values_ST, histogram_ST_values, evals >>

\* line 131: var filtered_L8 = L8.filter(ee.Filter.lt('CLOUD_COVER', 20))
FilterCloudCover ==
  /\ pc = "L131" /\ pc' = "L134"
  /\ filtered_L8' = Filter(L8, FilterLt("CLOUD_COVER", 20))
  /\ UNCHANGED << source, ui, centre, L8, landsatST, mean_LandsatST,
                  one_band, clip_mean_ST, values_ST, histogram_ST_values, evals >>

\* line 134: print(filtered_L8, 'Landsat 8 ST'): the collection is fetched
PrintFiltered ==
  /\ pc = "L134" /\ pc' = "L145"
  /\ console' = console \o << [at |-> "L134", text |-> "ImageCollection",
                               error |-> CollError(filtered_L8)],
                              [at |-> "L134", text |-> "Landsat 8 ST",
                               error |-> ""] >>
  /\ evals' = Append(evals, Eval("L134", "print"))
  /\ UNCHANGED << source, mapOptions, mapCenter, layers, tasks, centre, compute >>

\* line 145: print(filtered_L8, 'Landsat ST (Fahrenheit)')
PrintFahrenheit ==
  /\ pc = "L145" /\ pc' = "L148"
  /\ console' = console \o << [at |-> "L145", text |-> "ImageCollection",
                               error |-> CollError(filtered_L8)],
                              [at |-> "L145", text |-> "Landsat ST (Fahrenheit)",
                               error |-> ""] >>
  /\ evals' = Append(evals, Eval("L145", "print"))
  /\ UNCHANGED << source, mapOptions, mapCenter, layers, tasks, centre, compute >>

\* line 148: var landsatST = filtered_L8.map(applyScaleFactors)
MapScaleFactors ==
  /\ pc = "L148" /\ pc' = "L151"
  /\ landsatST' = Map(filtered_L8, applyScaleFactors)
  /\ UNCHANGED << source, ui, centre, L8, filtered_L8, mean_LandsatST,
                  one_band, clip_mean_ST, values_ST, histogram_ST_values, evals >>

\* line 151: print("... Computing mean ST across image collection"),
\* a client-side string
PrintProgress ==
  /\ pc = "L151" /\ pc' = "L156"
  /\ console' = Append(console,
                  [at |-> "L151",
                   text |-> "... Computing mean ST across image collection",
                   error |-> ""])
  /\ UNCHANGED << source, mapOptions, mapCenter, layers, tasks, centre, compute, evals >>

\* line 156: var mean_LandsatST = landsatST.mean()
ComputeMean ==
  /\ pc = "L156" /\ pc' = "L159"
  /\ mean_LandsatST' = Mean(landsatST)
  /\ UNCHANGED << source, ui, centre, L8, filtered_L8, landsatST,
                  one_band, clip_mean_ST, values_ST, histogram_ST_values, evals >>

\* line 159: var one_band = mean_LandsatST.select('ST_B10')
SelectOneBand ==
  /\ pc = "L159" /\ pc' = "L162"
  /\ one_band' = Select(mean_LandsatST, << "ST_B10" >>)
  /\ UNCHANGED << source, ui, centre, L8, filtered_L8, landsatST,
                  mean_LandsatST, clip_mean_ST, values_ST, histogram_ST_values, evals >>

\* line 162: var clip_mean_ST = one_band.clip(STUDYBOUNDS)
ClipMean ==
  /\ pc = "L162" /\ pc' = "L165"
  /\ clip_mean_ST' = Clip(one_band, STUDYBOUNDS)
  /\ UNCHANGED << source, ui, centre, L8, filtered_L8, landsatST,
                  mean_LandsatST, one_band, values_ST, histogram_ST_values, evals >>

\* line 165: print(clip_mean_ST, 'Mean ST clipped to study area')
PrintClipped ==
  /\ pc = "L165" /\ pc' = "L168"
  /\ console' = console \o << [at |-> "L165", text |-> "Image",
                               error |-> clip_mean_ST.error],
                              [at |-> "L165",
                               text |-> "Mean ST clipped to study area",
                               error |-> ""] >>
  /\ evals' = Append(evals, Eval("L165", "print"))
  /\ UNCHANGED << source, mapOptions, mapCenter, layers, tasks, centre, compute >>

\* line 168: var values_ST = clip_mean_ST.select("ST_B10")
SelectValues ==
  /\ pc = "L168" /\ pc' = "L172"
  /\ values_ST' = Select(clip_mean_ST, << "ST_B10" >>)
  /\ UNCHANGED << source, ui, centre, L8, filtered_L8, landsatST,
                  mean_LandsatST, one_band, clip_mean_ST, histogram_ST_values, evals >>

\* lines 172-177: var histogram_ST_values = ui.Chart.image.histogram({...}),
\* a chart description
BuildHistogram ==
  /\ pc = "L172" /\ pc' = "L181"
  /\ histogram_ST_values' = Histogram(values_ST, STUDYBOUNDS)
  /\ UNCHANGED << source, ui, centre, L8, filtered_L8, landsatST,
                  mean_LandsatST, one_band, clip_mean_ST, values_ST, evals >>

\* line 181: print(histogram_ST_values): the chart is computed and drawn
PrintHistogram ==
  /\ pc = "L181" /\ pc' = "L187"
  /\ console' = Append(console, [at |-> "L181", text |-> "Chart",
                                 error |-> histogram_ST_values.error])
  /\ evals' = Append(evals, Eval("L181", "histogram"))
  /\ UNCHANGED << source, mapOptions, mapCenter, layers, tasks, centre, compute >>

\* lines 187-190: Map.addLayer(clip_mean_ST, {...}, "ST", DISPLAY)
MapAddLayer ==
  /\ pc = "L187" /\ pc' = "L192"
  /\ layers' = Append(layers,
       [image |-> clip_mean_ST, bands |-> "ST_B10", min |-> 50, max |-> 140,
        palette |-> << "blue", "white", "red" >>, name |-> "ST",
        shown |-> DISPLAY,
        error |-> Select(clip_mean_ST, << "ST_B10" >>).error])
  /\ evals' = Append(evals, Eval("L187", "layer"))
  /\ UNCHANGED << source, mapOptions, mapCenter, console, tasks, centre, compute >>

\* lines 192-200: Export.image.toDrive({...})
ExportToDrive ==
  /\ pc = "L192" /\ pc' = "done"
  /\ tasks' = Append(tasks,
       [image |-> clip_mean_ST,
        description |-> "MeanST_MRCOG_2013_2022_JulAug",
        folder |-> "SUHI",
        fileNamePrefix |-> "MeanST_MRCOG_2013_2022_JulAug",
        scale |-> 30, maxPixels |-> [m |-> 1, e |-> 12],
        fileFormat |-> "GeoTIFF",
        error |-> clip_mean_ST.error])
  /\ evals' = Append(evals, Eval("L192", "export"))
  /\ UNCHANGED << source, mapOptions, mapCenter, console, layers, centre, compute >>

Next ==
  \/ MapSetOptions
  \/ GeomCentroid
  \/ GeomCoordinates
  \/ CoordsGetFirst
  \/ CoordsGetLast
  \/ GetInfoX
  \/ GetInfoY
  \/ MapSetCenter
  \/ BuildL8
  \/ FilterCloudCover
  \/ PrintFiltered
  \/ PrintFahrenheit
  \/ MapScaleFactors
  \/ PrintProgress
  \/ ComputeMean
  \/ SelectOneBand
  \/ ClipMean
  \/ PrintClipped
  \/ SelectValues
  \/ BuildHistogram
  \/ PrintHistogram
  \/ MapAddLayer
  \/ ExportToDrive

Spec == Init /\ [][Next]_vars

\* ------------------------------------------------------------------------
\* Helpers of the properties
\* ------------------------------------------------------------------------
Order ==
  << "L67", "L83", "L84", "L85", "L86", "L87", "L88", "L89", "L123", "L131",
     "L134", "L145", "L148", "L151", "L156", "L159", "L162", "L165", "L168",
     "L172", "L181", "L187", "L192", "done" >>

Pos(label) == CHOOSE k \in DOMAIN Order : Order[k] = label

\* the statement at label has been executed
After(label) == Pos(pc) > Pos(label)

HasId(coll, id) == \E j \in DOMAIN coll : coll[j].id = id
ById(coll, id) == coll[CHOOSE j \in DOMAIN coll : coll[j].id = id]

Bit(x, n) == (x \div 2^n) % 2 = 1

\* The four predicates of the filter, written out on the scene metadata
P_bounds(image) ==
  /\ image.footprint.w <= -105265001 /\ image.footprint.e >= -107655533
  /\ image.footprint.s <= 36242138 /\ image.footprint.n >= 34233749
P_day(image) == image.time.doy \in 182..243
P_year(image) == image.time.year \in 2013..2022
P_cloud(image) == image.props.CLOUD_COVER \in 0..19

Passes(image, skip) ==
  /\ (skip = "bounds" \/ P_bounds(image))
  /\ (skip = "day" \/ P_day(image))
  /\ (skip = "year" \/ P_year(image))
  /\ (skip = "cloud" \/ P_cloud(image))

\* The collection pipeline of lines 123-131 with one filter left out
Pipeline(coll, skip) ==
  LET c0 == CollSelect(coll, << "ST_B10", "QA_PIXEL" >>)
      c1 == IF skip = "bounds" THEN c0 ELSE FilterBounds(c0, STUDYBOUNDS)
      c2 == IF skip = "day" THEN c1 ELSE Filter(c1, DATE_RANGE)
      c3 == IF skip = "year" THEN c2 ELSE Filter(c2, YEAR_RANGE)
      c4 == Map(c3, cloudMask)
  IN  IF skip = "cloud" THEN c4 ELSE Filter(c4, FilterLt("CLOUD_COVER", 20))

\* Each filter is needed: without it the pipeline keeps a scene that the
\* full pipeline drops
DroppingAdmits ==
  \A skip \in {"bounds", "day", "year", "cloud"} :
    \E image \in MetaScenes :
      /\ Len(Pipeline(<< image >>, skip)) = 1
      /\ Len(Pipeline(<< image >>, "none")) = 0

C2_CloudMask ==
  After("L123") =>
    \A k \in DOMAIN source :
      (P_bounds(source[k]) /\ P_day(source[k]) /\ P_year(source[k])) =>
        /\ HasId(L8, source[k].id)
        /\ \A p \in Pixels : \A b \in {"ST_B10", "QA_PIXEL"} :
             LET qa == source[k].data["QA_PIXEL"][p].v.i
                 out == ById(L8, source[k].id)
             IN  IF Bit(qa, 3) \/ Bit(qa, 4)
                   THEN ~out.data[b][p].m
                   ELSE out.data[b][p].m = source[k].data[b][p].m

C2_Witness ==
  /\ After("L123")
  /\ Len(source) = 1 /\ Len(L8) = 1
  /\ source[1].data["QA_PIXEL"][PIn].v.i = QaShadow
  /\ source[1].data["ST_B10"][PIn].m
  /\ ~L8[1].data["ST_B10"][PIn].m
  /\ source[1].data["QA_PIXEL"][POut].v.i = QaClear
  /\ L8[1].data["ST_B10"][POut].m

\* Sum of the ST_B10 values at p of the images of coll indexed by S
RECURSIVE SumOver(_, _, _)
SumOver(coll, p, S) ==
  IF S = {} THEN Dec(0, 0)
  ELSE LET k == CHOOSE x \in S : TRUE
       IN  DecAdd(coll[k].data["ST_B10"][p].v, SumOver(coll, p, S \ {k}))

ValidAt(coll, p) == {k \in DOMAIN coll : coll[k].data["ST_B10"][p].m}

IsValid(image, b, p) ==
  image.error = "" /\ b \in BandSet(image) /\ image.data[b][p].m

\* C3: at every pixel of mean_LandsatST, with k >= 1 valid values among the
\* N images of landsatST the output is their sum divided by k; with k = 0
\* (also when N = 0) the output pixel is invalid.
C3_MeanOfValid ==
  After("L156") =>
    \A p \in Pixels :
      LET V == ValidAt(landsatST, p) IN
      IF V # {}
        THEN /\ IsValid(mean_LandsatST, "ST_B10", p)
             /\ mean_LandsatST.data["ST_B10"][p].v =
                  [num |-> SumOver(landsatST, p, V), den |-> Cardinality(V)]
        ELSE ~IsValid(mean_LandsatST, "ST_B10", p)

C3_Witness ==
  /\ After("L156")
  /\ Len(landsatST) = 2
  /\ Cardinality(ValidAt(landsatST, PIn)) = 2
  /\ landsatST[1].data["ST_B10"][PIn].v # landsatST[2].data["ST_B10"][PIn].v
  /\ Cardinality(ValidAt(landsatST, POut)) = 1
  /\ mean_LandsatST.data["ST_B10"][POut].m
  /\ mean_LandsatST.data["ST_B10"][POut].v.den = 1

\* d * 0.006152436 - 191.47, the conversion written as one affine map
ExpectedF(d) ==
  LET a == d * 6152
      b == d * 436
  IN  Norm((a \div 10^6) - 191, (a % 10^6) * 1000 + b - 470000000)

\* C4: applyScaleFactors replaces every raw count d of ST_B10 by
\* ((d * 0.00341802 + 149.0) - 273.15) * 1.8 + 32, a value that depends on
\* the pixel's own raw count only.
C4_ScaleFormula ==
  After("L148") =>
    /\ Len(landsatST) = Len(filtered_L8)
    /\ \A k \in DOMAIN filtered_L8 : \A p \in Pixels :
         landsatST[k].data["ST_B10"][p].v =
           ExpectedF(filtered_L8[k].data["ST_B10"][p].v.i)

C4_Witness ==
  /\ After("L148")
  /\ \E k \in DOMAIN landsatST :
       /\ filtered_L8[k].data["ST_B10"][PIn].v = Dec(65535, 0)
       /\ landsatST[k].data["ST_B10"][PIn].m
       /\ landsatST[k].data["ST_B10"][PIn].v = Dec(211, 729893260)

InsideStudyArea(p) ==
  /\ -107655533 <= p.lon /\ p.lon <= -105265001
  /\ 34233749 <= p.lat /\ p.lat <= 36242138

\* C5: every valid pixel of clip_mean_ST lies inside STUDYBOUNDS, every
\* pixel outside it is invalid, and pixels inside keep the value and the
\* validity they have in one_band.
C5_ClipContainment ==
  After("L162") =>
    \A p \in Pixels :
      /\ IsValid(clip_mean_ST, "ST_B10", p) => InsideStudyArea(p)
      /\ (InsideStudyArea(p) /\ one_band.error = "") =>
           /\ clip_mean_ST.error = ""
           /\ clip_mean_ST.bands = << "ST_B10" >>
           /\ clip_mean_ST.data["ST_B10"][p] = one_band.data["ST_B10"][p]

C5_Witness ==
  /\ After("L162")
  /\ IsValid(one_band, "ST_B10", POut)
  /\ ~IsValid(clip_mean_ST, "ST_B10", POut)
  /\ IsValid(clip_mean_ST, "ST_B10", PIn)

Tolerance == Dec(0, 5000000)

\* C6 as stated: for d = 20000 the conversion gives 249.36 K, -23.79 C and
\* about -10.82 F.
C6_Original ==
  After("L148") =>
    \A k \in DOMAIN filtered_L8 : \A p \in Pixels :
      filtered_L8[k].data["ST_B10"][p].v = Dec(20000, 0) =>
        /\ Approx(Kelvin(filtered_L8[k]).data["ST_B10"][p].v,
                  Dec(249, 360000000), Tolerance)
        /\ Approx(Celsius(filtered_L8[k]).data["ST_B10"][p].v,
                  Dec(-24, 210000000), Tolerance)
        /\ Approx(landsatST[k].data["ST_B10"][p].v,
                  Dec(-11, 180000000), Tolerance)

\* C6 (amended): for d = 20000 the conversion gives 217.3604 K, -55.7896 C
\* and -68.42128 F.
C6_Amended ==
  After("L148") =>
    \A k \in DOMAIN filtered_L8 : \A p \in Pixels :
      filtered_L8[k].data["ST_B10"][p].v = Dec(20000, 0) =>
        /\ Kelvin(filtered_L8[k]).data["ST_B10"][p].v = Dec(217, 360400000)
        /\ Celsius(filtered_L8[k]).data["ST_B10"][p].v = Dec(-56, 210400000)
        /\ landsatST[k].data["ST_B10"][p].v = Dec(-69, 578720000)

C6_Witness ==
  /\ After("L148")
  /\ \E k \in DOMAIN landsatST :
       /\ filtered_L8[k].data["ST_B10"][PIn].v = Dec(20000, 0)
       /\ landsatST[k].data["ST_B10"][PIn].m

FilterOf(name) ==
  CASE name = "bounds" -> FilterBoundsOf(STUDYBOUNDS)
    [] name = "day" -> DATE_RANGE
    [] name = "year" -> YEAR_RANGE
    [] name = "cloud" -> FilterLt("CLOUD_COVER", 20)

FilterOrders ==
  {o \in [1..4 -> {"bounds", "day", "year", "cloud"}] :
     \A a, b \in 1..4 : o[a] = o[b] => a = b}

\* The filters applied in the given order, map(cloudMask) applied once
\* mapAt of them have run
RECURSIVE Reordered(_, _, _, _)
Reordered(coll, order, mapAt, done) ==
  LET c == IF done = mapAt THEN Map(coll, cloudMask) ELSE coll
  IN  IF done = 4 THEN c
      ELSE Reordered(Filter(c, FilterOf(order[done + 1])), order, mapAt,
                     done + 1)

\* C7: the filtered collection, per-pixel masks included, is the same for
\* every order of the four filters and for every position of
\* map(cloudMask) among them.  Compared once line 131 has run; source and
\* filtered_L8 are not assigned again.
C7_OrderIndependent ==
  pc = "L134" =>
    \A order \in FilterOrders : \A mapAt \in 0..4 :
      Reordered(CollSelect(source, << "ST_B10", "QA_PIXEL" >>),
                order, mapAt, 0) = filtered_L8

C7_Witness ==
  /\ pc = "L134"
  /\ Len(source) = 2 /\ Len(filtered_L8) = 1
  /\ \E p \in Pixels :
       /\ ById(source, filtered_L8[1].id).data["ST_B10"][p].m
       /\ ~filtered_L8[1].data["ST_B10"][p].m

AllInvalid(image) ==
  /\ image.error = ""
  /\ \A b \in BandSet(image) : \A p \in Pixels : ~image.data[b][p].m

\* C8: when filtered_L8 is empty the script runs to its end without any
\* error: mean, band selection and clip are empty or all-invalid rasters,
\* the layer is added and exactly one export task is submitted.
C8_EmptyPropagates ==
  (pc = "done" /\ filtered_L8 = << >>) =>
    /\ \A k \in DOMAIN console : console[k].error = ""
    /\ AllInvalid(mean_LandsatST)
    /\ AllInvalid(one_band)
    /\ AllInvalid(clip_mean_ST)
    /\ Len(layers) = 1 /\ layers[1].error = ""
    /\ Len(tasks) = 1 /\ tasks[1].error = ""

\* C9: applyScaleFactors keeps the bands of the image (ST_B10 replaced in
\* place), the QA_PIXEL band and the validity of every pixel, so a pixel
\* masked before the conversion does not count in the mean.
C9_ScaleFrame ==
  /\ After("L148") =>
       /\ Len(landsatST) = Len(filtered_L8)
       /\ \A k \in DOMAIN filtered_L8 :
            /\ landsatST[k].error = ""
            /\ landsatST[k].bands = filtered_L8[k].bands
            /\ landsatST[k].data["QA_PIXEL"] = filtered_L8[k].data["QA_PIXEL"]
            /\ \A p \in Pixels :
                 landsatST[k].data["ST_B10"][p].m =
                   filtered_L8[k].data["ST_B10"][p].m
  /\ (After("L156") /\ filtered_L8 # << >>) =>
       \A p \in Pixels :
         mean_LandsatST.data["ST_B10"][p].v.den =
           Cardinality(ValidAt(filtered_L8, p))

C9_Witness ==
  /\ After("L156")
  /\ Len(filtered_L8) = 2
  /\ \E k \in DOMAIN filtered_L8 :
       /\ ById(source, filtered_L8[k].id).data["ST_B10"][PIn].m
       /\ ~filtered_L8[k].data["ST_B10"][PIn].m
       /\ ~landsatST[k].data["ST_B10"][PIn].m
  /\ mean_LandsatST.data["ST_B10"][PIn].v.den = 1

TerminalKinds == {"print", "histogram", "layer", "export"}

\* C10 as stated: only console print, histogram computation, map display
\* and export submission make the server evaluate anything.
C10_Original == \A k \in DOMAIN evals : evals[k].kind \in TerminalKinds

Forcing ==
  << Eval("L87", "getInfo"), Eval("L88", "getInfo"), Eval("L134", "print"),
     Eval("L145", "print"), Eval("L165", "print"), Eval("L181", "histogram"),
     Eval("L187", "layer"), Eval("L192", "export") >>

\* C10 (amended): the server is asked to evaluate by the two getInfo calls
\* of lines 87 and 88, which come before Map.setCenter, and by the prints
\* of server values, the histogram, the map layer and the export; no other
\* statement asks for an evaluation.
C10_Amended ==
  LET Executed(e) == After(e.line) IN
  /\ evals = SelectSeq(Forcing, Executed)
  /\ mapCenter # << >> =>
       /\ Len(evals) >= 2
       /\ evals[1].kind = "getInfo" /\ evals[2].kind = "getInfo"
  /\ tasks # << >> => Len(evals) = 8

C10_Witness ==
  /\ pc = "done"
  /\ Len(tasks) = 1
  /\ Cardinality({k \in DOMAIN evals : evals[k].kind = "getInfo"}) = 2

====
